---- MODULE Spec2Model ----
(***************************************************************************)
(* The usage tracking engine of the dashboard backend                      *)
(* (backend/services/usage_service.py, backend/models/usage.py,            *)
(* backend/routers/usage.py) as a state machine.                           *)
(*                                                                         *)
(* Units.  Money is held in whole micro-dollars (1e-6 USD), the grain of   *)
(* round(x, 6).  A price is in micro-dollars per 1000 tokens, so           *)
(* (tokens / 1000) * price is tokens * price nano-dollars.  Time is a      *)
(* whole number of days; timedelta(days = d) is d.                         *)
(***************************************************************************)
EXTENDS Integers, Sequences, FiniteSets, TLC

VARIABLES
    usage_file,      \* lines of usage_entries.jsonl, in file order
    config,          \* UsageTracker.config, the live configuration
    config_file,     \* content of usage_config.json
    now,             \* the wall clock read by datetime.now()
    next_id,         \* stands for uuid4(): the id the next written entry gets
    cl_pc,           \* position of the background cleanup task
    recent_entries,  \* cleanup_old_data's local list of kept lines
    cutoff_date,     \* cleanup_old_data's local cutoff, NoDate while it is not running
    calls,           \* the PUT /usage/config requests received, in order of arrival
    environ,         \* os.environ: what os.getenv("DISABLE_AUTH", "false") gives
    ret              \* what the call completed by the last step gave its caller

vars == <<usage_file, config, config_file, now, next_id, cl_pc,
          recent_entries, cutoff_date, calls, environ, ret>>

\* ------------------------------------------------------------------ bounds
MaxTrack == 2
MaxTime == 1
MaxCorrupt == 1
MaxCalls == 2

\* ------------------------------------------------------------------ values
None == "None"
NoDate == -1

HAIKU == "claude-3-haiku"
OPUS == "claude-3-opus"
SONNET == "claude-3-sonnet"
SONNET_35 == "claude-3.5-sonnet"
UNKNOWN == "unknown"

ModelType == {OPUS, SONNET, SONNET_35, HAIKU, UNKNOWN}

Price(i, o, cc, cr) ==
    [input_price_per_1k |-> i, output_price_per_1k |-> o,
     cache_creation_price_per_1k |-> cc, cache_read_price_per_1k |-> cr]

\* micro-dollars per 1000 tokens: 0.015 USD is 15000
MODEL_PRICING ==
    (OPUS :> Price(15000, 75000, 22500, 1500))
    @@ (SONNET_35 :> Price(3000, 15000, 4500, 300))
    @@ (SONNET :> Price(3000, 15000, 4500, 300))
    @@ (HAIKU :> Price(250, 1250, 375, 25))

\* a table a client may PUT to /usage/pricing: one model, 0.0002 USD per 1k
\* tokens in every category
FlatPricing == (OPUS :> Price(200, 200, 200, 200))

PricingTables == {MODEL_PRICING, FlatPricing}

\* a quota that is not set (None)
NoQuota == -1

\* cost_quota is in whole US dollars
default_config ==
    [token_quota |-> NoQuota, cost_quota |-> 100, request_quota |-> NoQuota,
     billing_period |-> "monthly", pricing |-> MODEL_PRICING]

\* a patch a client may PUT to /usage/config: a pricing override
ConfigPatches == {[pricing |-> FlatPricing]}

Tokens(i, o, cc, cr) ==
    [input_tokens |-> i, output_tokens |-> o,
     cache_creation_tokens |-> cc, cache_read_tokens |-> cr]

\* the track requests the clients send
TrackRequests ==
    { [instance_id |-> "i1", session_id |-> "s1", model |-> HAIKU,
       tokens |-> Tokens(1000, 500, 0, 0)],
      [instance_id |-> "i2", session_id |-> None, model |-> OPUS,
       tokens |-> Tokens(2, 2, 2, 2)],
      [instance_id |-> "i1", session_id |-> None, model |-> UNKNOWN,
       tokens |-> Tokens(7, 0, 0, 3)] }

\* the track requests the whole-service specification takes
FrameRequests == {req \in TrackRequests : req.instance_id = "i1"}

\* ------------------------------------------------------------- cost
\* round(x, 6) of x = n nano-dollars, in micro-dollars.  A decimal tie
\* (n = ...500) is not a binary tie: the double nearest to it lies just above
\* or just below, so either neighbour can come out.
round6(n) ==
    LET q == n \div 1000
        r == n % 1000
    IN  IF r < 500 THEN {q} ELSE IF r > 500 THEN {q + 1} ELSE {q, q + 1}

ZeroCosts ==
    [input_cost |-> 0, output_cost |-> 0, cache_creation_cost |-> 0,
     cache_read_cost |-> 0, total_cost |-> 0]

\* calculate_cost, were total_cost the sum of the four rounded costs
calculate_cost_sum_of_rounded(cfg, model, t) ==
    LET table == cfg.pricing
    IN  IF model \notin DOMAIN table
        THEN {ZeroCosts}
        ELSE LET pricing == table[model]
             IN  { [input_cost |-> a, output_cost |-> b, cache_creation_cost |-> c,
                    cache_read_cost |-> d, total_cost |-> a + b + c + d] :
                       a \in round6(t.input_tokens * pricing.input_price_per_1k),
                       b \in round6(t.output_tokens * pricing.output_price_per_1k),
                       c \in round6(t.cache_creation_tokens
                                    * pricing.cache_creation_price_per_1k),
                       d \in round6(t.cache_read_tokens
                                    * pricing.cache_read_price_per_1k) }

\* calculate_cost, were a model missing from the live table priced from the
\* built-in MODEL_PRICING
calculate_cost_builtin_fallback(cfg, model, t) ==
    LET table == IF model \in DOMAIN cfg.pricing THEN cfg.pricing ELSE MODEL_PRICING
    IN  IF model \notin DOMAIN table
        THEN {ZeroCosts}
        ELSE LET pricing == table[model]
                 a == t.input_tokens * pricing.input_price_per_1k
                 b == t.output_tokens * pricing.output_price_per_1k
                 c == t.cache_creation_tokens * pricing.cache_creation_price_per_1k
                 d == t.cache_read_tokens * pricing.cache_read_price_per_1k
             IN  { [input_cost |-> ra, output_cost |-> rb, cache_creation_cost |-> rc,
                    cache_read_cost |-> rd, total_cost |-> rs] :
                       ra \in round6(a), rb \in round6(b), rc \in round6(c),
                       rd \in round6(d), rs \in round6(a + b + c + d) }

\* the cost records calculate_cost can return (one, unless a rounding ties)
calculate_cost(cfg, model, t) ==
    LET table == cfg.pricing
    IN  IF model \notin DOMAIN table
        THEN {ZeroCosts}
        ELSE LET pricing == table[model]
                 input_cost == t.input_tokens * pricing.input_price_per_1k
                 output_cost == t.output_tokens * pricing.output_price_per_1k
                 cache_creation_cost ==
                     t.cache_creation_tokens * pricing.cache_creation_price_per_1k
                 cache_read_cost ==
                     t.cache_read_tokens * pricing.cache_read_price_per_1k
                 total_cost ==
                     input_cost + output_cost + cache_creation_cost + cache_read_cost
             IN  { [input_cost |-> a, output_cost |-> b, cache_creation_cost |-> c,
                    cache_read_cost |-> d, total_cost |-> s] :
                       a \in round6(input_cost), b \in round6(output_cost),
                       c \in round6(cache_creation_cost),
                       d \in round6(cache_read_cost), s \in round6(total_cost) }

\* ------------------------------------------------------------- entries
UsageEntry(id, req, timestamp, costs) ==
    [id |-> id, instance_id |-> req.instance_id, session_id |-> req.session_id,
     timestamp |-> timestamp, model |-> req.model,
     input_tokens |-> req.tokens.input_tokens,
     output_tokens |-> req.tokens.output_tokens,
     cache_creation_tokens |-> req.tokens.cache_creation_tokens,
     cache_read_tokens |-> req.tokens.cache_read_tokens,
     input_cost |-> costs.input_cost, output_cost |-> costs.output_cost,
     cache_creation_cost |-> costs.cache_creation_cost,
     cache_read_cost |-> costs.cache_read_cost, total_cost |-> costs.total_cost]

\* a line of the log: the JSON text of one entry
model_dump_json(entry) == [kind |-> "json", data |-> entry]

\* the write, were the log opened with 'w'
append_line_truncating(file, line) == <<line>>

\* open(usage_file, 'a'); write(line)
\* A log that ends in a line cut short (it has no newline yet) takes the
\* appended text onto that line, which no reader can decode.
append_line(file, line) ==
    IF file # <<>> /\ file[Len(file)].kind = "torn"
    THEN [file EXCEPT ![Len(file)] = [kind |-> "garbage", data |-> [raw |-> "garbage"]]]
    ELSE Append(file, line)

\* ------------------------------------------------------------- queries
UsageQuery(start_date, end_date, instance_id, session_id, model, offset, limit) ==
    [start_date |-> start_date, end_date |-> end_date, instance_id |-> instance_id,
     session_id |-> session_id, model |-> model, offset |-> offset, limit |-> limit]

\* UsageQuery's default limit, and the limit get_usage_aggregation asks for
DefaultLimit == 100
AggregationLimit == 10000

\* queries the clients send to /usage/entries
Queries ==
    { UsageQuery(NoDate, NoDate, None, None, None, 0, DefaultLimit),
      UsageQuery(NoDate, NoDate, None, None, None, 0, 1),
      UsageQuery(NoDate, NoDate, None, None, None, 1, 1),
      UsageQuery(NoDate, NoDate, None, None, None, 1000, DefaultLimit),
      UsageQuery(NoDate, NoDate, "i1", None, None, 0, DefaultLimit),
      UsageQuery(NoDate, NoDate, None, "s1", HAIKU, 1, 0),
      UsageQuery(1, NoDate, None, None, None, 0, DefaultLimit),
      UsageQuery(NoDate, 0, None, None, None, 0, DefaultLimit) }

\* the reads the whole-service specification takes
FrameQueries == {UsageQuery(NoDate, NoDate, None, None, None, 0, DefaultLimit)}

\* filters the clients send to /usage/aggregation
AggregationQueries ==
    { UsageQuery(NoDate, NoDate, None, None, None, 0, DefaultLimit),
      UsageQuery(NoDate, NoDate, None, None, None, 1, 1),
      UsageQuery(1, NoDate, "i1", None, None, 0, DefaultLimit),
      UsageQuery(NoDate, 0, None, None, None, 0, DefaultLimit) }

_matches_query(entry, query) ==
    IF query.start_date # NoDate /\ entry.timestamp < query.start_date THEN FALSE
    ELSE IF query.end_date # NoDate /\ entry.timestamp > query.end_date THEN FALSE
    ELSE IF query.instance_id # None /\ entry.instance_id # query.instance_id THEN FALSE
    ELSE IF query.session_id # None /\ entry.session_id # query.session_id THEN FALSE
    ELSE IF query.model # None /\ entry.model # query.model THEN FALSE
    ELSE TRUE

\* the read loop of get_usage_entries: blank lines are passed over, a line
\* json.loads cannot decode raises, a decoded entry is kept if it matches
RECURSIVE read_matching(_, _)
read_matching(lines, query) ==
    IF lines = <<>>
    THEN [raised |-> FALSE, entries |-> <<>>]
    ELSE LET line == Head(lines)
             rest == read_matching(Tail(lines), query)
         IN  IF line.kind = "blank" THEN rest
             ELSE IF line.kind # "json" THEN [raised |-> TRUE, entries |-> <<>>]
             ELSE IF rest.raised THEN rest
             ELSE IF _matches_query(line.data, query)
                  THEN [raised |-> FALSE, entries |-> <<line.data>> \o rest.entries]
                  ELSE rest

\* the insertion of a sort that is not stable: e goes before its equals
insert_newest_first_unstable(sorted, e) ==
    LET k == Cardinality({i \in 1..Len(sorted) : sorted[i].timestamp > e.timestamp})
    IN  SubSeq(sorted, 1, k) \o <<e>> \o SubSeq(sorted, k + 1, Len(sorted))

\* where list.sort(key = timestamp, reverse = True) puts e among the entries
\* already placed: behind every entry that is as new or newer (the sort is
\* stable, also when reversed)
insert_newest_first(sorted, e) ==
    LET k == Cardinality({i \in 1..Len(sorted) : sorted[i].timestamp >= e.timestamp})
    IN  SubSeq(sorted, 1, k) \o <<e>> \o SubSeq(sorted, k + 1, Len(sorted))

\* the sort, were reverse = True left out
RECURSIVE sort_oldest_first(_)
sort_oldest_first(entries) ==
    IF entries = <<>> THEN <<>>
    ELSE LET sorted == sort_oldest_first(SubSeq(entries, 1, Len(entries) - 1))
             e == entries[Len(entries)]
             k == Cardinality({i \in 1..Len(sorted) : sorted[i].timestamp <= e.timestamp})
         IN  SubSeq(sorted, 1, k) \o <<e>> \o SubSeq(sorted, k + 1, Len(sorted))

RECURSIVE sort_newest_first(_)
sort_newest_first(entries) ==
    IF entries = <<>> THEN <<>>
    ELSE insert_newest_first(sort_newest_first(SubSeq(entries, 1, Len(entries) - 1)),
                             entries[Len(entries)])

\* Python's s[start:end]
py_index(len, i) ==
    IF i < 0 THEN (IF len + i < 0 THEN 0 ELSE len + i)
    ELSE IF i > len THEN len ELSE i

\* the slice, were its end taken inclusive
py_slice_inclusive(s, start, end) ==
    SubSeq(s, py_index(Len(s), start) + 1, py_index(Len(s), end + 1))

py_slice(s, start, end) ==
    SubSeq(s, py_index(Len(s), start) + 1, py_index(Len(s), end))

get_usage_entries(file, query) ==
    LET r == read_matching(file, query)
    IN  IF r.raised THEN <<>>
        ELSE py_slice(sort_newest_first(r.entries), query.offset,
                      query.offset + query.limit)

\* ------------------------------------------------------------- aggregation
RECURSIVE sum(_)
sum(xs) == IF xs = <<>> THEN 0 ELSE Head(xs) + sum(Tail(xs))

\* a float quotient a / b, kept exact as the pair of its terms
Ratio(a, b) == <<a, b>>

\* the pydantic model UsageAggregation: its declared fields and their defaults
UsageAggregationDefaults ==
    [period_start |-> NoDate, period_end |-> NoDate, instance_id |-> None,
     total_input_tokens |-> 0, total_output_tokens |-> 0,
     total_cache_creation_tokens |-> 0, total_cache_read_tokens |-> 0,
     total_tokens |-> 0,
     total_input_cost |-> 0, total_output_cost |-> 0,
     total_cache_creation_cost |-> 0, total_cache_read_cost |-> 0,
     total_cost |-> 0,
     total_requests |-> 0, total_sessions |-> 0, unique_instances |-> 0,
     claude_model_usage |-> <<>>,
     avg_tokens_per_request |-> Ratio(0, 1), avg_cost_per_request |-> Ratio(0, 1),
     cache_hit_rate |-> Ratio(0, 1)]

\* UsageAggregation(**kwargs): a declared field takes the keyword of its name
\* or its default; a keyword that names no field is dropped (the model sets no
\* "extra" policy, and pydantic's default is to ignore)
UsageAggregation(kwargs) ==
    [f \in DOMAIN UsageAggregationDefaults |->
        IF f \in DOMAIN kwargs THEN kwargs[f] ELSE UsageAggregationDefaults[f]]

\* the defaultdict get_usage_aggregation fills, one group per model met
model_usage_of(entries) ==
    LET of(m) == SelectSeq(entries, LAMBDA e : e.model = m)
        col(es, f) == [i \in 1..Len(es) |-> es[i][f]]
    IN  [m \in {entries[i].model : i \in 1..Len(entries)} |->
            [tokens |-> sum(col(of(m), "input_tokens")) + sum(col(of(m), "output_tokens")),
             cost |-> sum(col(of(m), "total_cost")),
             requests |-> Len(of(m)),
             input_tokens |-> sum(col(of(m), "input_tokens")),
             output_tokens |-> sum(col(of(m), "output_tokens"))]]

min_timestamp(entries) ==
    CHOOSE t \in {entries[i].timestamp : i \in 1..Len(entries)} :
        \A i \in 1..Len(entries) : t <= entries[i].timestamp

max_timestamp(entries) ==
    CHOOSE t \in {entries[i].timestamp : i \in 1..Len(entries)} :
        \A i \in 1..Len(entries) : t >= entries[i].timestamp

\* the last 30 days, whatever the query asks for
empty_period_last_30_days(query, clock) ==
    [period_start |-> clock - 30, period_end |-> clock]

\* the period of an aggregation of no entries: the bounds the query gives,
\* and the last 30 days where it gives none
empty_period(query, clock) ==
    [period_start |-> IF query.start_date # NoDate THEN query.start_date
                      ELSE clock - 30,
     period_end |-> IF query.end_date # NoDate THEN query.end_date ELSE clock]

\* the query of the caller, passed on as it came
aggregation_query_paginated(query) == query

\* the query get_usage_aggregation reads the log with: the caller's filters,
\* the default offset and its own limit
aggregation_query(query) ==
    UsageQuery(query.start_date, query.end_date, query.instance_id,
               query.session_id, query.model, 0, AggregationLimit)

get_usage_aggregation(file, query, clock) ==
    LET entries == get_usage_entries(file, aggregation_query(query))
        col(f) == [i \in 1..Len(entries) |-> entries[i][f]]
    IN  IF entries = <<>>
        THEN UsageAggregation(
                 [period_start |-> empty_period(query, clock).period_start,
                  period_end |-> empty_period(query, clock).period_end,
                  instance_id |-> query.instance_id])
        ELSE LET total_input_tokens == sum(col("input_tokens"))
                 total_output_tokens == sum(col("output_tokens"))
                 total_cache_creation_tokens == sum(col("cache_creation_tokens"))
                 total_cache_read_tokens == sum(col("cache_read_tokens"))
                 total_input_cost == sum(col("input_cost"))
                 total_output_cost == sum(col("output_cost"))
                 total_cache_creation_cost == sum(col("cache_creation_cost"))
                 total_cache_read_cost == sum(col("cache_read_cost"))
                 model_usage == model_usage_of(entries)
                 total_requests == Len(entries)
                 total_tokens == total_input_tokens + total_output_tokens
                 total_cost == total_input_cost + total_output_cost
                               + total_cache_creation_cost + total_cache_read_cost
                 cache_requests ==
                     Cardinality({i \in 1..Len(entries) : entries[i].cache_read_tokens > 0})
                 unique_sessions ==
                     Cardinality({entries[i].session_id : i \in 1..Len(entries)} \ {None})
                 unique_instances ==
                     Cardinality({entries[i].instance_id : i \in 1..Len(entries)})
             IN  UsageAggregation(
                     [period_start |-> IF query.start_date # NoDate THEN query.start_date
                                       ELSE min_timestamp(entries),
                      period_end |-> IF query.end_date # NoDate THEN query.end_date
                                     ELSE max_timestamp(entries),
                      instance_id |-> query.instance_id,
                      total_input_tokens |-> total_input_tokens,
                      total_output_tokens |-> total_output_tokens,
                      total_cache_creation_tokens |-> total_cache_creation_tokens,
                      total_cache_read_tokens |-> total_cache_read_tokens,
                      total_tokens |-> total_tokens,
                      total_input_cost |-> total_input_cost,
                      total_output_cost |-> total_output_cost,
                      total_cache_creation_cost |-> total_cache_creation_cost,
                      total_cache_read_cost |-> total_cache_read_cost,
                      total_cost |-> total_cost,
                      total_requests |-> total_requests,
                      total_sessions |-> unique_sessions,
                      unique_instances |-> unique_instances,
                      model_usage |-> model_usage,
                      avg_tokens_per_request |-> Ratio(total_tokens, total_requests),
                      avg_cost_per_request |-> Ratio(total_cost, total_requests),
                      cache_hit_rate |-> Ratio(cache_requests * 100, total_requests)])

\* ------------------------------------------------------------- cleanup
\* the retentions the clients ask of DELETE /usage/cleanup, in days
CleanupDays == {0}

\* a read loop that passes over the lines it cannot decode
RECURSIVE read_recent_skipping_malformed(_, _)
read_recent_skipping_malformed(lines, cutoff) ==
    IF lines = <<>>
    THEN [raised |-> FALSE, lines |-> <<>>]
    ELSE LET line == Head(lines)
             rest == read_recent_skipping_malformed(Tail(lines), cutoff)
         IN  IF line.kind # "json" THEN rest
             ELSE IF line.data.timestamp >= cutoff
                  THEN [raised |-> FALSE, lines |-> <<line>> \o rest.lines]
                  ELSE rest

\* the read loop of cleanup_old_data: the lines it keeps, or that it raised
RECURSIVE read_recent(_, _)
read_recent(lines, cutoff) ==
    IF lines = <<>>
    THEN [raised |-> FALSE, lines |-> <<>>]
    ELSE LET line == Head(lines)
             rest == read_recent(Tail(lines), cutoff)
         IN  IF line.kind = "blank" THEN rest
             ELSE IF line.kind # "json" THEN [raised |-> TRUE, lines |-> <<>>]
             ELSE IF rest.raised THEN rest
             ELSE IF line.data.timestamp >= cutoff
                  THEN [raised |-> FALSE, lines |-> <<line>> \o rest.lines]
                  ELSE rest

\* dict.update(patch)
dict_update(d, patch) ==
    [k \in DOMAIN d \cup DOMAIN patch |-> IF k \in DOMAIN patch THEN patch[k] ELSE d[k]]

\* ------------------------------------------------------ authentication
\* os.environ with no variable set, and os.getenv(key, default)
NoEnviron == [name \in {} |-> ""]

os_getenv(env, key, default) == IF key \in DOMAIN env THEN env[key] ELSE default

\* str.lower(), on the spellings of the two words DISABLE_AUTH is written in
py_lower(s) ==
    CASE s \in {"true", "True", "TRUE"} -> "true"
      [] s \in {"false", "False", "FALSE"} -> "false"
      [] OTHER -> s

\* how DISABLE_AUTH may be set when the server runs
Environs == {NoEnviron, [DISABLE_AUTH |-> "false"], [DISABLE_AUTH |-> "true"]}

\* what HTTPBearer(auto_error=False) hands the dependency: None when the
\* request has no Authorization header or one that is not a Bearer header,
\* else the token. A token is a JWT signed with SECRET_KEY and not expired,
\* with the payload it carries, or anything else.
NoCredentials == [kind |-> "none", sub |-> None]

BearerTokens ==
    {[kind |-> "signed", sub |-> "admin"],     \* what POST /auth/login issues
     [kind |-> "signed", sub |-> "ghost"],     \* signed for a user that is not there
     [kind |-> "signed", sub |-> None],        \* signed, without a subject
     [kind |-> "invalid", sub |-> "admin"]}    \* garbage, a wrong signature, expired

Credentials == {NoCredentials} \cup BearerTokens

DEFAULT_USERNAME == "admin"

USERS ==
    [username \in {DEFAULT_USERNAME} |-> [username |-> username, is_active |-> TRUE]]

\* jwt.decode(token, SECRET_KEY, algorithms=[ALGORITHM]): the payload, or a
\* PyJWTError
jwt_decode(token) ==
    IF token.kind = "signed"
    THEN [raised |-> FALSE, payload |-> <<[sub |-> token.sub]>>]
    ELSE [raised |-> TRUE, payload |-> <<>>]

\* verify_token: <<payload>>, or <<>> for None
verify_token(token) ==
    LET decoded == jwt_decode(token)
    IN  IF decoded.raised THEN <<>>
        ELSE IF decoded.payload[1].sub = None THEN <<>>
        ELSE decoded.payload

HTTPException(status_code, detail) ==
    [status_code |-> status_code, detail |-> detail, user |-> <<>>]

Authenticated(username) ==
    [status_code |-> 200, detail |-> "",
     user |-> <<[username |-> username, is_active |-> TRUE]>>]

\* get_current_user, were a request without credentials turned away
get_current_user_requiring_credentials(env, credentials) ==
    IF py_lower(os_getenv(env, "DISABLE_AUTH", "false")) = "true"
    THEN Authenticated("local_user")
    ELSE IF credentials = NoCredentials
    THEN HTTPException(401, "Not authenticated")
    ELSE LET payload == verify_token(credentials)
         IN  IF payload = <<>>
             THEN HTTPException(401, "Invalid authentication credentials")
             ELSE IF payload[1].sub \notin DOMAIN USERS
             THEN HTTPException(401, "User not found")
             ELSE IF ~USERS[payload[1].sub].is_active
             THEN HTTPException(400, "Inactive user")
             ELSE Authenticated(payload[1].sub)

\* get_current_user, the dependency of every protected endpoint: the user it
\* gives the handler, or the HTTPException it raises
get_current_user(env, credentials) ==
    IF py_lower(os_getenv(env, "DISABLE_AUTH", "false")) = "true"
    THEN Authenticated("local_user")
    ELSE IF credentials = NoCredentials
    THEN Authenticated("anonymous")
    ELSE LET payload == verify_token(credentials)
         IN  IF payload = <<>>
             THEN HTTPException(401, "Invalid authentication credentials")
             ELSE IF payload[1].sub \notin DOMAIN USERS
             THEN HTTPException(401, "User not found")
             ELSE IF ~USERS[payload[1].sub].is_active
             THEN HTTPException(400, "Inactive user")
             ELSE Authenticated(payload[1].sub)

\* the patches the clients of PUT /usage/config send: two values for one
\* key, and another key
QuotaPatches ==
    {[cost_quota |-> 100], [cost_quota |-> 200], [token_quota |-> 1000]}

\* ------------------------------------------------------------- export
\* a file of the data directory: its name and its extension
Path(prefix, stamp, ext) == [name |-> [prefix |-> prefix, stamp |-> stamp], ext |-> ext]

usage_path == Path("usage_entries", NoDate, "jsonl")
config_path == Path("usage_config", NoDate, "json")

ExportFormat == {"json", "csv", "xlsx"}

UsageExport(format, query, include_raw_data, include_aggregations, filename) ==
    [format |-> format, query |-> query, include_raw_data |-> include_raw_data,
     include_aggregations |-> include_aggregations, filename |-> filename]

\* the exports the whole-service specification takes
FrameExports ==
    { UsageExport("json", UsageQuery(NoDate, NoDate, None, None, None, 0, 1),
                  TRUE, TRUE, "usage_entries"),
      UsageExport("csv", UsageQuery(NoDate, NoDate, None, None, None, 0, DefaultLimit),
                  TRUE, TRUE, None) }

\* export_usage_data: the path it returns, whether it writes there, and what.
\* An optional key of the JSON document is a sequence of none or one value.
export_usage_data(file, clock, export_request) ==
    LET entries == get_usage_entries(file, export_request.query)
        export_path ==
            IF export_request.filename = None
            THEN Path("claude_usage_export", clock, export_request.format)
            ELSE Path(export_request.filename, NoDate, export_request.format)
        json == [export_info |-> [timestamp |-> clock, query |-> export_request.query,
                                  total_entries |-> Len(entries)],
                 usage_entries |-> IF export_request.include_raw_data
                                   THEN <<entries>> ELSE <<>>,
                 aggregation |-> IF export_request.include_aggregations
                                 THEN <<get_usage_aggregation(file, export_request.query,
                                                              clock)>>
                                 ELSE <<>>]
        csv == IF entries # <<>>
               THEN [header |-> DOMAIN entries[1], rows |-> entries]
               ELSE [header |-> {}, rows |-> <<>>]
    IN  [path |-> export_path,
         written |-> export_request.format \in {"json", "csv"},
         json |-> IF export_request.format = "json" THEN <<json>> ELSE <<>>,
         csv |-> IF export_request.format = "csv" THEN <<csv>> ELSE <<>>]

\* the lines the log would hold were an export written over it: indented JSON
\* or CSV text, no line of which decodes to an entry
export_as_lines(export) == <<[kind |-> "garbage", data |-> [raw |-> "export"]]>>

\* ------------------------------------------------------------- calendar
\* the day of the year that starts on 1 March, for the month counted from
\* March, and the ordinal of that day of year y of that calendar
day_of_year(mp, day) == (153 * mp + 2) \div 5 + day - 1

ordinal_of(era, yoe, doy) ==
    era * 146097 + yoe * 365 + yoe \div 4 - yoe \div 100 + doy - 305

ordinal_in_era(y, doy) == ordinal_of(y \div 400, y % 400, doy)

\* the date of a day of a 400-year era, through its year of the era, its day
\* of the year that starts on 1 March, and its month counted from March
date_of_month(y, doy, mp) ==
    [year |-> IF mp < 10 THEN y ELSE y + 1,
     month |-> IF mp < 10 THEN mp + 3 ELSE mp - 9,
     day |-> doy - (153 * mp + 2) \div 5 + 1]

date_of_day(y, doy) == date_of_month(y, doy, (5 * doy + 2) \div 153)

date_in_year(era, doe, yoe) ==
    date_of_day(era * 400 + yoe, doe - (365 * yoe + yoe \div 4 - yoe \div 100))

date_in_era(era, doe) ==
    date_in_year(era, doe,
                 (doe - doe \div 1460 + doe \div 36524 - doe \div 146096) \div 365)

\* date.toordinal(): the number of the day in the proleptic Gregorian
\* calendar, 1 January of year 1 being day 1
toordinal(year, month, day) ==
    ordinal_in_era(IF month <= 2 THEN year - 1 ELSE year,
                   day_of_year(IF month > 2 THEN month - 3 ELSE month + 9, day))

\* date.fromordinal()
fromordinal(n) == date_in_era((n + 305) \div 146097, (n + 305) % 146097)

\* a datetime, to the second: its date and the second of its day
datetime(year, month, day, second) ==
    [year |-> year, month |-> month, day |-> day, second |-> second]

\* datetime.combine(date, time)
datetime_on(date, second) == datetime(date.year, date.month, date.day, second)

\* a timedelta, normalised as Python does: 0 <= seconds < a day
timedelta(days, seconds) ==
    [days |-> days + seconds \div 86400, seconds |-> seconds % 86400]

\* the datetime so many days and seconds after the start of day 0
datetime_at(td) == datetime_on(fromordinal(td.days), td.seconds)

\* datetime - timedelta
dt_minus(dt, td) ==
    datetime_at(timedelta(toordinal(dt.year, dt.month, dt.day) - td.days,
                          dt.second - td.seconds))

\* datetime + timedelta
dt_plus(dt, td) == dt_minus(dt, timedelta(-td.days, -td.seconds))

\* datetime - datetime
dt_diff(a, b) ==
    timedelta(toordinal(a.year, a.month, a.day) - toordinal(b.year, b.month, b.day),
              a.second - b.second)

\* datetime.weekday(): Monday is 0
weekday(dt) == (toordinal(dt.year, dt.month, dt.day) + 6) % 7

\* The clock and the timestamps of the model count whole days; day 0 is
\* Monday 1 June 2026.
day_of(dt) == toordinal(dt.year, dt.month, dt.day) - toordinal(2026, 6, 1)

\* the datetime of a second of a day of the model
datetime_of(clock, second) ==
    datetime_on(fromordinal(toordinal(2026, 6, 1) + clock), second)

\* the times of day the clock is read at: the first and the last second
DayTimes == {0, 86399}

\* the time of day the whole-service specification reads the clock at
FrameTimes == {0}

\* ------------------------------------------------------------- current stats
\* a month of 30 days, whatever the month
monthly_period_of_30_days(now_dt) ==
    LET period_start == datetime(now_dt.year, now_dt.month, 1, 0)
    IN  [period_start |-> period_start,
         period_end |-> dt_minus(dt_plus(period_start, timedelta(30, 0)), timedelta(0, 1))]

\* the billing period of a month: now.replace(day=1, ...) to one second before
\* the first day of the next month
monthly_period(now_dt) ==
    LET period_start == datetime(now_dt.year, now_dt.month, 1, 0)
    IN  [period_start |-> period_start,
         period_end |->
             IF now_dt.month = 12
             THEN dt_minus(datetime(now_dt.year + 1, 1, 1, 0), timedelta(0, 1))
             ELSE dt_minus(datetime(now_dt.year, now_dt.month + 1, 1, 0),
                           timedelta(0, 1))]

\* the billing period that holds now, as its first and last second
billing_period_of(now_dt, billing_period) ==
    IF billing_period = "monthly"
    THEN monthly_period(now_dt)
    ELSE IF billing_period = "weekly"
    THEN LET days_since_monday == weekday(now_dt)
             monday == dt_minus(now_dt, timedelta(days_since_monday, 0))
             period_start == datetime(monday.year, monday.month, monday.day, 0)
         IN  [period_start |-> period_start,
              period_end |-> dt_minus(dt_plus(period_start, timedelta(7, 0)),
                                      timedelta(0, 1))]
    ELSE LET period_start == datetime(now_dt.year, now_dt.month, now_dt.day, 0)
         IN  [period_start |-> period_start,
              period_end |-> dt_minus(dt_plus(period_start, timedelta(1, 0)),
                                      timedelta(0, 1))]

\* a datetime with its microseconds, as datetime.now() reads it
Timestamp(dt, microsecond) == [datetime |-> dt, microsecond |-> microsecond]

\* datetime < datetime
datetime_lt(a, b) ==
    \/ dt_diff(b.datetime, a.datetime).days > 0
    \/ /\ dt_diff(b.datetime, a.datetime).days = 0
       /\ \/ dt_diff(b.datetime, a.datetime).seconds > 0
          \/ /\ dt_diff(b.datetime, a.datetime).seconds = 0
             /\ a.microsecond < b.microsecond

\* _matches_query for a query of start_date and end_date only, to the
\* microsecond
_matches_dates(timestamp, start_date, end_date) ==
    IF datetime_lt(timestamp, start_date) THEN FALSE
    ELSE IF datetime_lt(end_date, timestamp) THEN FALSE
    ELSE TRUE

\* the microseconds the clock is read at
Microseconds == {0, 500000}

\* Doubles.  A double that is not negative is a natural number of at most 53
\* significant bits (the mantissa, as its bits from the lowest up) times a
\* power of two (the exponent); zero has no bits.
bits_of(n) ==
    LET length == CHOOSE k \in 0..30 : n < 2^k /\ (k = 0 \/ n >= 2^(k - 1))
    IN  [i \in 1..length |-> (n \div 2^(i - 1)) % 2]

nat_of(bits) ==
    LET value[i \in 0..Len(bits)] ==
            IF i = 0 THEN 0 ELSE 2 * value[i - 1] + bits[Len(bits) + 1 - i]
    IN  value[Len(bits)]

without_leading_zeros(bits) ==
    SubSeq(bits, 1, CHOOSE k \in 0..Len(bits) :
                        /\ k > 0 => bits[k] = 1
                        /\ \A i \in (k + 1)..Len(bits) : bits[i] = 0)

\* bits + 1: the lowest 0 becomes 1 and the 1s below it 0
plus_one(bits) ==
    LET lowest_zero == CHOOSE k \in 1..(Len(bits) + 1) :
                           /\ k <= Len(bits) => bits[k] = 0
                           /\ \A i \in 1..(k - 1) : bits[i] = 1
    IN  [i \in 1..(lowest_zero - 1) |-> 0] \o <<1>>
        \o SubSeq(bits, lowest_zero + 1, Len(bits))

\* the bits kept of a number whose lowest bits are dropped: round to nearest,
\* ties to even
round_half_even(kept, dropped) ==
    IF /\ dropped[Len(dropped)] = 1
       /\ \/ kept[1] = 1
          \/ \E i \in 1..(Len(dropped) - 1) : dropped[i] = 1
    THEN plus_one(kept)
    ELSE kept

\* the double nearest to bits x 2^exponent
to_double(bits, exponent) ==
    IF Len(bits) <= 53
    THEN [mantissa |-> bits, exponent |-> exponent]
    ELSE [mantissa |-> round_half_even(SubSeq(bits, Len(bits) - 52, Len(bits)),
                                       SubSeq(bits, 1, Len(bits) - 53)),
          exponent |-> exponent + Len(bits) - 53]

\* the lowest count bits of n, zeros included
low_bits(n, count) == [i \in 1..count |-> (n \div 2^(i - 1)) % 2]

\* what is left of r < d after 20 bits of r / d after the binary point, for
\* d < 1024
fraction_rest(r, d) == (r * 2^20) % d

\* the first 20 bits of r / d after the binary point, the last one first
fraction_bits(r, d) == low_bits((r * 2^20) \div d, 20)

\* the first 60 bits of r / d after the binary point, the last one first, and
\* one more below them that is set when the division leaves a rest
long_fraction_bits(r, d) ==
    <<IF fraction_rest(fraction_rest(fraction_rest(r, d), d), d) = 0 THEN 0 ELSE 1>>
    \o fraction_bits(fraction_rest(fraction_rest(r, d), d), d)
    \o fraction_bits(fraction_rest(r, d), d)
    \o fraction_bits(r, d)

\* total / days of two ints: the double nearest to the quotient, which a
\* whole quotient is
float_div(total, days) ==
    IF total % days = 0
    THEN [mantissa |-> bits_of(total \div days), exponent |-> 0]
    ELSE to_double(without_leading_zeros(long_fraction_bits(total % days, days)
                                         \o bits_of(total \div days)),
                   -61)

\* 24 bits of the bits of a number: the lowest, the next or the highest
limb(bits, k) ==
    nat_of(SubSeq(bits, 24 * k - 23,
                  IF Len(bits) < 24 * k THEN Len(bits) ELSE 24 * k))

\* 30 x a number of at most 53 bits, limb by limb with the carry
times_30(bits) ==
    LET low == 30 * limb(bits, 1)
        mid == 30 * limb(bits, 2) + low \div 2^24
        high == 30 * limb(bits, 3) + mid \div 2^24
    IN  without_leading_zeros(low_bits(low % 2^24, 24) \o low_bits(mid % 2^24, 24)
                              \o bits_of(high))

\* x * 30: the double nearest to the product
float_times_30(x) == to_double(times_30(x.mantissa), x.exponent)

\* int(x) of a double that is not negative: its whole part
py_int(x) ==
    IF x.exponent >= 0
    THEN nat_of([i \in 1..x.exponent |-> 0] \o x.mantissa)
    ELSE nat_of(SubSeq(x.mantissa, 1 - x.exponent, Len(x.mantissa)))

\* int(total / days * 30): the whole part of the product of the rounded
\* quotient, rounded
py_int_projection(total, days) == {py_int(float_times_30(float_div(total, days)))}

\* int(total / days): the floor of the quotient
py_int_average(total, days) == total \div days

\* the trend of the cost against the previous period: a change of more than a
\* tenth either way; a change of exactly a tenth is decided by the rounding
\* of the division
trend_directions(current_cost, previous_cost) ==
    IF previous_cost > 0
    THEN LET change10 == 10 * (current_cost - previous_cost)
         IN  IF change10 > previous_cost THEN {"increasing"}
             ELSE IF change10 = previous_cost THEN {"increasing", "stable"}
             ELSE IF change10 < -previous_cost THEN {"decreasing"}
             ELSE IF change10 = -previous_cost THEN {"decreasing", "stable"}
             ELSE {"stable"}
    ELSE {"stable"}

\* a quota in dollars, in micro-dollars
micro_dollars(quota) == IF quota = NoQuota THEN NoQuota ELSE quota * 1000000

\* usage / quota * 100 for every quota that is set, 0 included
usage_percent_of_any_quota(usage, quota) ==
    IF quota # NoQuota THEN Ratio(usage * 100, quota) ELSE Ratio(0, 1)

\* (usage / quota * 100) if quota else 0: a quota of None or of 0 gives 0
usage_percent(usage, quota) ==
    IF quota \notin {NoQuota, 0} THEN Ratio(usage * 100, quota) ELSE Ratio(0, 1)

\* the previous period, were its start period_start - (period_end -
\* period_start), without the second that period_end lacks
previous_period_without_last_second(period) ==
    [period_start |->
         dt_minus(period.period_start, dt_diff(period.period_end, period.period_start)),
     period_end |-> dt_minus(period.period_start, timedelta(0, 1))]

\* the period of the same length that ends one second before a period
previous_period(period) ==
    [period_start |->
         dt_minus(period.period_start,
                  timedelta(dt_diff(period.period_end, period.period_start).days,
                            dt_diff(period.period_end, period.period_start).seconds + 1)),
     period_end |-> dt_minus(period.period_start, timedelta(0, 1))]

\* UsageQuery(start_date=period_start, end_date=period_end); the bounds of
\* the model's queries are whole days
period_query(period) ==
    UsageQuery(day_of(period.period_start), day_of(period.period_end), None, None,
               None, 0, DefaultLimit)

\* the UsageStats records made of the aggregations of a period and of the
\* one before it.  Costs are in micro-dollars and cost_quota in dollars.
UsageStats(cfg, period, aggregation, prev_aggregation, days_elapsed) ==
    { [current_period_start |-> period.period_start,
       current_period_end |-> period.period_end,
       current_tokens |-> aggregation.total_tokens,
       current_cost |-> aggregation.total_cost,
       current_requests |-> aggregation.total_requests,
       token_quota |-> cfg.token_quota,
       cost_quota |-> cfg.cost_quota,
       request_quota |-> cfg.request_quota,
       token_usage_percent |->
           usage_percent(aggregation.total_tokens, cfg.token_quota),
       cost_usage_percent |->
           usage_percent(aggregation.total_cost, micro_dollars(cfg.cost_quota)),
       request_usage_percent |->
           usage_percent(aggregation.total_requests, cfg.request_quota),
       projected_monthly_cost |->
           IF days_elapsed > 0 THEN Ratio(aggregation.total_cost * 30, days_elapsed)
           ELSE Ratio(0, 1),
       projected_monthly_tokens |-> projected_monthly_tokens,
       daily_average_cost |->
           IF days_elapsed > 0 THEN Ratio(aggregation.total_cost, days_elapsed)
           ELSE Ratio(0, 1),
       daily_average_tokens |->
           IF days_elapsed > 0
           THEN py_int_average(aggregation.total_tokens, days_elapsed) ELSE 0,
       trend_direction |-> trend_direction] :
      projected_monthly_tokens \in
          IF days_elapsed > 0
          THEN py_int_projection(aggregation.total_tokens, days_elapsed) ELSE {0},
      trend_direction \in
          trend_directions(aggregation.total_cost, prev_aggregation.total_cost) }

\* the statistics of the period that holds now
stats_of_period(file, cfg, now_dt, period) ==
    UsageStats(cfg, period,
               get_usage_aggregation(file, period_query(period), day_of(now_dt)),
               get_usage_aggregation(file, period_query(previous_period(period)),
                                     day_of(now_dt)),
               dt_diff(now_dt, period.period_start).days + 1)

\* get_current_usage_stats: the statistics it may return
get_current_usage_stats(file, cfg, now_dt) ==
    stats_of_period(file, cfg, now_dt, billing_period_of(now_dt, cfg.billing_period))

NoRet ==
    [op |-> "none", raised |-> FALSE, req |-> <<>>, entries |-> <<>>, agg |-> <<>>,
     file |-> <<>>, stats |-> <<>>]

\* ------------------------------------------------------------- operations
Init ==
    /\ usage_file = <<>>
    /\ config = default_config
    /\ config_file = default_config
    /\ now = 0
    /\ next_id = 1
    /\ cl_pc = "idle"
    /\ recent_entries = <<>>
    /\ cutoff_date = NoDate
    /\ calls = <<>>
    /\ environ = NoEnviron
    /\ ret = NoRet

\* track_usage, were a failed write logged and the entry returned all the same
Track_swallowing(req, io_ok) ==
    /\ next_id <= MaxTrack
    /\ \E costs \in calculate_cost(config, req.model, req.tokens) :
          LET entry == UsageEntry(next_id, req, now, costs)
          IN  /\ next_id' = IF io_ok THEN next_id + 1 ELSE next_id
              /\ usage_file' = IF io_ok
                               THEN append_line(usage_file, model_dump_json(entry))
                               ELSE usage_file
              /\ ret' = [NoRet EXCEPT !.op = "track", !.req = <<req>>,
                                      !.entries = <<entry>>]
    /\ UNCHANGED <<config, config_file, now, cl_pc, recent_entries, cutoff_date,
                   calls, environ>>

\* UsageTracker.track_usage; io_ok is whether the log can be opened for append
Track(req, io_ok) ==
    /\ next_id <= MaxTrack
    /\ \E costs \in calculate_cost(config, req.model, req.tokens) :
          LET entry == UsageEntry(next_id, req, now, costs)
          IN  /\ IF io_ok
                 THEN /\ next_id' = next_id + 1
                      /\ usage_file' = append_line(usage_file, model_dump_json(entry))
                      /\ ret' = [NoRet EXCEPT !.op = "track", !.req = <<req>>,
                                              !.entries = <<entry>>]
                         ELSE /\ next_id' = next_id
                      /\ usage_file' = usage_file
                      /\ ret' = [NoRet EXCEPT !.op = "track", !.req = <<req>>,
                                              !.raised = TRUE]
    /\ UNCHANGED <<config, config_file, now, cl_pc, recent_entries, cutoff_date,
                   calls, environ>>

\* GET /usage/entries: UsageTracker.get_usage_entries
Query(query) ==
    /\ ret' = [NoRet EXCEPT !.op = "query", !.req = <<query>>,
                            !.entries = get_usage_entries(usage_file, query)]
    /\ UNCHANGED <<usage_file, config, config_file, now, next_id, cl_pc,
                   recent_entries, cutoff_date, calls, environ>>

\* GET /usage/aggregation: UsageTracker.get_usage_aggregation
Aggregate(query) ==
    /\ ret' = [NoRet EXCEPT !.op = "aggregate", !.req = <<query>>,
                            !.agg = <<get_usage_aggregation(usage_file, query, now)>>]
    /\ UNCHANGED <<usage_file, config, config_file, now, next_id, cl_pc,
                   recent_entries, cutoff_date, calls, environ>>

\* GET /usage/stats: UsageTracker.get_current_usage_stats
CurrentStats(second) ==
    /\ \E stats \in get_current_usage_stats(usage_file, config,
                                            datetime_of(now, second)) :
           ret' = [NoRet EXCEPT !.op = "current_stats", !.stats = <<stats>>]
    /\ UNCHANGED <<usage_file, config, config_file, now, next_id, cl_pc,
                   recent_entries, cutoff_date, calls, environ>>

\* the filter of the current period on an entry stamped now: the query of
\* get_current_usage_stats, asked at the instant of the entry or one second
\* later, applied to the timestamp that UsageEntry's default_factory reads
MatchCurrentPeriod(second, microsecond, later) ==
    /\ \E timestamp \in {Timestamp(datetime_of(now, second), microsecond)} :
         \E period \in {billing_period_of(
                            IF later THEN dt_plus(timestamp.datetime, timedelta(0, 1))
                            ELSE timestamp.datetime,
                            config.billing_period)} :
            ret' = [NoRet EXCEPT
                       !.op = "matches_query",
                       !.req = <<[timestamp |-> timestamp, period |-> period]>>,
                       !.entries =
                           IF _matches_dates(timestamp,
                                             Timestamp(period.period_start, 0),
                                             Timestamp(period.period_end, 0))
                           THEN <<timestamp>> ELSE <<>>]
    /\ UNCHANGED <<usage_file, config, config_file, now, next_id, cl_pc,
                   recent_entries, cutoff_date, calls, environ>>

\* POST /usage/export: UsageTracker.export_usage_data; io_ok is whether the
\* export file can be opened for writing
Export(export_request, io_ok) ==
    \E export \in {export_usage_data(usage_file, now, export_request)} :
        LET writes == export.written /\ io_ok
        IN  /\ usage_file' = IF writes /\ export.path = usage_path
                             THEN export_as_lines(export) ELSE usage_file
            /\ config_file' = IF writes /\ export.path = config_path
                              THEN export ELSE config_file
            /\ ret' = IF export.written /\ ~io_ok
                      THEN [NoRet EXCEPT !.op = "export", !.req = <<export_request>>,
                                         !.raised = TRUE]
                      ELSE [NoRet EXCEPT !.op = "export", !.req = <<export_request>>,
                                         !.file = <<export>>]
            /\ UNCHANGED <<config, now, next_id, cl_pc, recent_entries, cutoff_date,
                   calls, environ>>

\* UsageTracker._save_config: the file takes the live configuration, unless
\* the write fails, which is logged and not raised
_save_config(cfg, file, io_ok) == IF io_ok THEN cfg ELSE file

\* PUT /usage/pricing, were the service to bring the costs of the logged
\* entries up to the new prices
UpdatePricing_repricing_log(pricing_data, io_ok) ==
    LET reprice(cfg, line) ==
            IF line.kind # "json" THEN line
            ELSE LET e == line.data
                     costs == CHOOSE c \in calculate_cost(cfg, e.model,
                                          Tokens(e.input_tokens, e.output_tokens,
                                                 e.cache_creation_tokens,
                                                 e.cache_read_tokens)) : TRUE
                 IN  [line EXCEPT !.data = [f \in DOMAIN e |->
                         IF f \in DOMAIN costs THEN costs[f] ELSE e[f]]]
    IN  /\ config' = [config EXCEPT !.pricing = pricing_data]
        /\ config_file' = _save_config(config', config_file, io_ok)
        /\ usage_file' = [i \in 1..Len(usage_file) |-> reprice(config', usage_file[i])]
        /\ ret' = [NoRet EXCEPT !.op = "update_pricing"]
        /\ UNCHANGED <<now, next_id, cl_pc, recent_entries, cutoff_date,
                       calls, environ>>

\* PUT /usage/pricing
UpdatePricing(pricing_data, io_ok) ==
    /\ config' = [config EXCEPT !.pricing = pricing_data]
    /\ config_file' = _save_config(config', config_file, io_ok)
    /\ ret' = [NoRet EXCEPT !.op = "update_pricing"]
    /\ UNCHANGED <<usage_file, now, next_id, cl_pc, recent_entries, cutoff_date,
                   calls, environ>>

\* PUT /usage/config
UpdateConfig(config_data, io_ok) ==
    /\ config' = dict_update(config, config_data)
    /\ config_file' = _save_config(config', config_file, io_ok)
    /\ ret' = [NoRet EXCEPT !.op = "update_config"]
    /\ UNCHANGED <<usage_file, now, next_id, cl_pc, recent_entries, cutoff_date,
                   calls, environ>>

\* a PUT /usage/config request arrives at the server and waits for the
\* event loop; it is concurrent with every request still waiting
ReceiveConfig(credentials, config_data) ==
    /\ Len(calls) < MaxCalls
    /\ calls' = Append(calls,
                       [credentials |-> credentials, config_data |-> config_data,
                        concurrent |-> \E i \in 1..Len(calls) : calls[i].state = "pending",
                        state |-> "pending", status_code |-> 0, saved |-> FALSE])
    /\ ret' = NoRet
    /\ UNCHANGED <<usage_file, config, config_file, now, next_id, cl_pc,
                   recent_entries, cutoff_date, environ>>

\* PUT /usage/config, were the handler to build the configuration from the
\* defaults and the body
ServeConfig_replacing(i, io_ok) ==
    /\ i \in 1..Len(calls)
    /\ calls[i].state = "pending"
    /\ LET current_user == get_current_user(environ, calls[i].credentials)
       IN  IF current_user.status_code # 200
           THEN /\ calls' = [calls EXCEPT ![i].state = "rejected",
                                          ![i].status_code = current_user.status_code]
                /\ ret' = [NoRet EXCEPT !.op = "update_config", !.raised = TRUE]
                /\ UNCHANGED <<config, config_file>>
           ELSE /\ config' = dict_update(default_config, calls[i].config_data)
                /\ config_file' = _save_config(config', config_file, io_ok)
                /\ calls' = [calls EXCEPT ![i].state = "served",
                                          ![i].status_code = 200,
                                          ![i].saved = io_ok]
                /\ ret' = [NoRet EXCEPT !.op = "update_config"]
    /\ UNCHANGED <<usage_file, now, next_id, cl_pc, recent_entries, cutoff_date,
                   environ>>

\* the event loop runs a received PUT /usage/config: the dependency
\* get_current_user, then the handler, a coroutine that awaits nothing, so
\* that no other request runs between its update and its save
ServeConfig(i, io_ok) ==
    /\ i \in 1..Len(calls)
    /\ calls[i].state = "pending"
    /\ LET current_user == get_current_user(environ, calls[i].credentials)
       IN  IF current_user.status_code # 200
           THEN /\ calls' = [calls EXCEPT ![i].state = "rejected",
                                          ![i].status_code = current_user.status_code]
                /\ ret' = [NoRet EXCEPT !.op = "update_config", !.raised = TRUE]
                /\ UNCHANGED <<config, config_file>>
           ELSE /\ config' = dict_update(config, calls[i].config_data)
                /\ config_file' = _save_config(config', config_file, io_ok)
                /\ calls' = [calls EXCEPT ![i].state = "served",
                                          ![i].status_code = 200,
                                          ![i].saved = io_ok]
                /\ ret' = [NoRet EXCEPT !.op = "update_config"]
    /\ UNCHANGED <<usage_file, now, next_id, cl_pc, recent_entries, cutoff_date,
                   environ>>

\* cleanup_old_data has come to its end: it returns None and raises nothing,
\* whatever happened
CleanupDone == [NoRet EXCEPT !.op = "cleanup"]

\* cleanup_old_data, run as a background task beside the request handlers:
\* first it reads the log and picks the lines to keep ...
CleanupRead(days_to_keep) ==
    /\ cl_pc = "idle"
    /\ LET r == read_recent(usage_file, now - days_to_keep)
       IN  IF r.raised
           THEN /\ UNCHANGED <<cl_pc, recent_entries, cutoff_date>>
                /\ ret' = CleanupDone
           ELSE /\ cl_pc' = "rewrite"
                /\ recent_entries' = r.lines
                /\ cutoff_date' = now - days_to_keep
                /\ ret' = NoRet
    /\ UNCHANGED <<usage_file, config, config_file, now, next_id, calls, environ>>

\* a rewrite that filters the log as it is when it writes
CleanupRewrite_filtering_afresh(io_ok) ==
    /\ cl_pc = "rewrite"
    /\ cl_pc' = "idle"
    /\ recent_entries' = <<>>
    /\ cutoff_date' = NoDate
    /\ IF io_ok
       THEN usage_file' = read_recent(usage_file, cutoff_date).lines
       ELSE usage_file' = usage_file
    /\ ret' = CleanupDone
    /\ UNCHANGED <<config, config_file, now, next_id, calls, environ>>

\* ... then it opens the log for writing and writes the kept lines; a failure
\* to open is logged and not raised
CleanupRewrite(io_ok) ==
    /\ cl_pc = "rewrite"
    /\ cl_pc' = "idle"
    /\ recent_entries' = <<>>
    /\ cutoff_date' = NoDate
    /\ IF io_ok
       THEN usage_file' = recent_entries
       ELSE usage_file' = usage_file
    /\ ret' = CleanupDone
    /\ UNCHANGED <<config, config_file, now, next_id, calls, environ>>

\* The rewrite of cleanup_old_data in the steps other threads and a crash
\* can fall between.  open(usage_file, 'w') empties the log ...
CleanupOpen_without_truncation(io_ok) ==
    /\ cl_pc = "rewrite"
    /\ IF io_ok
       THEN /\ cl_pc' = "writing"
            /\ UNCHANGED <<usage_file, recent_entries, cutoff_date>>
       ELSE /\ cl_pc' = "idle"
            /\ recent_entries' = <<>>
            /\ cutoff_date' = NoDate
            /\ UNCHANGED usage_file
    /\ ret' = IF cl_pc' = "idle" THEN CleanupDone ELSE NoRet
    /\ UNCHANGED <<config, config_file, now, next_id, calls, environ>>

CleanupOpen(io_ok) ==
    /\ cl_pc = "rewrite"
    /\ IF io_ok
       THEN /\ cl_pc' = "writing"
            /\ usage_file' = <<>>
            /\ UNCHANGED <<recent_entries, cutoff_date>>
       ELSE /\ cl_pc' = "idle"
            /\ recent_entries' = <<>>
            /\ cutoff_date' = NoDate
            /\ UNCHANGED usage_file
    /\ ret' = IF cl_pc' = "idle" THEN CleanupDone ELSE NoRet
    /\ UNCHANGED <<config, config_file, now, next_id, calls, environ>>

\* the log without the line the last flush cut short
whole_lines(file) ==
    IF file # <<>> /\ file[Len(file)].kind = "torn"
    THEN SubSeq(file, 1, Len(file) - 1) ELSE file

\* ... writelines(recent_entries) fills the buffer of the file object, which
\* is flushed to the log whenever it is full: the next k lines reach the
\* log, and the start of the line after them if the buffer ended inside it;
\* recent_entries keeps the lines not yet wholly in the log ...
CleanupFlush(k, torn) ==
    /\ cl_pc = "writing"
    /\ k \in 0..(Len(recent_entries) - 1)
    /\ k > 0 \/ (torn /\ whole_lines(usage_file) = usage_file)
    /\ usage_file' = whole_lines(usage_file) \o SubSeq(recent_entries, 1, k)
                       \o (IF torn THEN <<[kind |-> "torn", data |-> [raw |-> "torn"]]>>
                           ELSE <<>>)
    /\ recent_entries' = SubSeq(recent_entries, k + 1, Len(recent_entries))
    /\ ret' = NoRet
    /\ UNCHANGED <<config, config_file, now, next_id, cl_pc, cutoff_date, calls,
                   environ>>

\* ... and leaving the with block flushes the rest and closes the file
CleanupClose ==
    /\ cl_pc = "writing"
    /\ usage_file' = whole_lines(usage_file) \o recent_entries
    /\ cl_pc' = "idle"
    /\ recent_entries' = <<>>
    /\ cutoff_date' = NoDate
    /\ ret' = CleanupDone
    /\ UNCHANGED <<config, config_file, now, next_id, calls, environ>>

\* the server process dies and is started again: the files stay as they
\* are, what was only in memory is gone, and UsageTracker.__init__ loads the
\* configuration from its file
Crash ==
    /\ cl_pc' = "idle"
    /\ recent_entries' = <<>>
    /\ cutoff_date' = NoDate
    /\ calls' = <<>>
    /\ config' = config_file
    /\ ret' = NoRet
    /\ UNCHANGED <<usage_file, config_file, now, next_id, environ>>

Tick ==
    /\ now < MaxTime
    /\ now' = now + 1
    /\ ret' = NoRet
    /\ UNCHANGED <<usage_file, config, config_file, next_id, cl_pc,
                   recent_entries, cutoff_date, calls, environ>>

\* the wall clock is set back (datetime.now() is naive local time: a clock
\* correction, the end of daylight saving time)
ClockSetBack ==
    /\ now > 0
    /\ now' = now - 1
    /\ ret' = NoRet
    /\ UNCHANGED <<usage_file, config, config_file, next_id, cl_pc,
                   recent_entries, cutoff_date, calls, environ>>

\* the environment damages the log: a line that is no JSON text (a torn or
\* overwritten write), or an empty line
CorruptLine(kind) ==
    /\ Cardinality({i \in 1..Len(usage_file) : usage_file[i].kind # "json"}) < MaxCorrupt
    /\ usage_file' = Append(usage_file, [kind |-> kind, data |-> [raw |-> kind]])
    /\ ret' = NoRet
    /\ UNCHANGED <<config, config_file, now, next_id, cl_pc, recent_entries, cutoff_date,
                   calls, environ>>

\* ------------------------------------------------------------- specifications
\* The whole service: every handler, the background cleanup beside them.
Next ==
    \/ \E req \in FrameRequests, io_ok \in BOOLEAN : Track(req, io_ok)
    \/ \E query \in FrameQueries : Query(query)
    \/ \E query \in FrameQueries : Aggregate(query)
    \/ \E second \in FrameTimes : CurrentStats(second)
    \/ \E export_request \in FrameExports, io_ok \in BOOLEAN :
          Export(export_request, io_ok)
    \/ \E pricing_data \in PricingTables : UpdatePricing(pricing_data, TRUE)
    \/ \E config_data \in ConfigPatches : UpdateConfig(config_data, TRUE)
    \/ \E days_to_keep \in CleanupDays : CleanupRead(days_to_keep)
    \/ \E io_ok \in BOOLEAN : CleanupRewrite(io_ok)
    \/ Tick

Spec == Init /\ [][Next]_vars

\* Tracking and reading: the log as track_usage builds it, and every query.
NextQuery ==
    \/ \E req \in TrackRequests, io_ok \in BOOLEAN : Track(req, io_ok)
    \/ \E query \in Queries : Query(query)
    \/ \E query \in AggregationQueries : Aggregate(query)
    \/ Tick
    \/ ClockSetBack

SpecQuery == Init /\ [][NextQuery]_vars

\* The same, over a log the environment may damage.
NextCorrupt ==
    \/ NextQuery
    \/ \E kind \in {"garbage", "blank"} : CorruptLine(kind)

SpecCorrupt == Init /\ [][NextCorrupt]_vars

\* The billing periods of the days of a calendar: the service is started on
\* any of these days, and clients ask for the current statistics and change
\* the billing period.
CalendarDays ==
    {day_of(datetime(year, month, day, 0)) :
        year \in {2023, 2024, 2100}, month \in 1..12, day \in {1, 15, 28}}
    \cup {day_of(datetime(2024, 2, 29, 0)), day_of(datetime(2023, 12, 31, 0))}

PeriodPatches ==
    {[billing_period |-> billing_period] :
        billing_period \in {"monthly", "weekly", "daily"}}

InitPeriod ==
    /\ usage_file = <<>>
    /\ config = default_config
    /\ config_file = default_config
    /\ now \in CalendarDays
    /\ next_id = 1
    /\ cl_pc = "idle"
    /\ recent_entries = <<>>
    /\ cutoff_date = NoDate
    /\ calls = <<>>
    /\ environ = NoEnviron
    /\ ret = NoRet

NextPeriod ==
    \/ \E second \in DayTimes : CurrentStats(second)
    \/ \E config_data \in PeriodPatches : UpdateConfig(config_data, TRUE)

SpecPeriod == InitPeriod /\ [][NextPeriod]_vars

\* The filter of the current period on the entries of the days of a calendar,
\* stamped in the first and in the last second of the day.
NextTiling ==
    \/ \E second \in DayTimes, microsecond \in Microseconds, later \in BOOLEAN :
          MatchCurrentPeriod(second, microsecond, later)
    \/ \E config_data \in PeriodPatches : UpdateConfig(config_data, TRUE)

SpecTiling == InitPeriod /\ [][NextTiling]_vars

\* The current statistics under changing quotas and billing periods.
StatsRequests ==
    { [instance_id |-> "i1", session_id |-> None, model |-> HAIKU,
       tokens |-> Tokens(tokens, 0, 0, 0)] : tokens \in {36, 40, 44} }

StatsPatches ==
    { [billing_period |-> "daily"],
      [token_quota |-> 1000, request_quota |-> 0],
      [cost_quota |-> 0, request_quota |-> 4] }

NextStats ==
    \/ \E req \in StatsRequests : Track(req, TRUE)
    \/ \E config_data \in StatsPatches : UpdateConfig(config_data, TRUE)
    \/ \E second \in DayTimes : CurrentStats(second)
    \/ Tick

SpecStats == Init /\ [][NextStats]_vars

\* The projections of the days of a month: the service is started on 3 or on
\* 10 June 2026, entries are tracked, and clients ask for the current
\* statistics and change the billing period.
ProjectionDays == {day_of(datetime(2026, 6, 3, 0)), day_of(datetime(2026, 6, 10, 0))}

ProjectionRequests ==
    { [instance_id |-> "i1", session_id |-> None, model |-> HAIKU,
       tokens |-> Tokens(tokens, 0, 0, 0)] : tokens \in {40, 49} }

InitProjection ==
    /\ usage_file = <<>>
    /\ config = default_config
    /\ config_file = default_config
    /\ now \in ProjectionDays
    /\ next_id = 1
    /\ cl_pc = "idle"
    /\ recent_entries = <<>>
    /\ cutoff_date = NoDate
    /\ calls = <<>>
    /\ environ = NoEnviron
    /\ ret = NoRet

NextProjection ==
    \/ \E req \in ProjectionRequests : Track(req, TRUE)
    \/ \E config_data \in PeriodPatches : UpdateConfig(config_data, TRUE)
    \/ \E second \in DayTimes : CurrentStats(second)

SpecProjection == InitProjection /\ [][NextProjection]_vars

\* Tracking under a changing price table.
NextCost ==
    \/ \E req \in TrackRequests, io_ok \in BOOLEAN : Track(req, io_ok)
    \/ \E pricing_data \in PricingTables, io_ok \in BOOLEAN :
          UpdatePricing(pricing_data, io_ok)
    \/ \E config_data \in ConfigPatches, io_ok \in BOOLEAN :
          UpdateConfig(config_data, io_ok)
    \/ Tick

SpecCost == Init /\ [][NextCost]_vars

\* Tracking under a changing price table, beside the readers of the log.
NextPriced ==
    \/ \E req \in TrackRequests : Track(req, TRUE)
    \/ \E pricing_data \in PricingTables : UpdatePricing(pricing_data, TRUE)
    \/ \E query \in FrameQueries : Query(query)
    \/ \E query \in FrameQueries : Aggregate(query)
    \/ Tick

SpecPriced == Init /\ [][NextPriced]_vars

\* The rewrite of cleanup step by step, beside the readers, and the process
\* dying at any point.  A track runs while cleanup is not writing (what an
\* append between two flushes leaves in the log depends on byte offsets,
\* which the lines of the model do not have).
NextRewrite ==
    \/ \E req \in FrameRequests : cl_pc # "writing" /\ Track(req, TRUE)
    \/ \E query \in FrameQueries : Query(query)
    \/ \E query \in FrameQueries : Aggregate(query)
    \/ \E days_to_keep \in CleanupDays : CleanupRead(days_to_keep)
    \/ \E io_ok \in BOOLEAN : CleanupOpen(io_ok)
    \/ \E k \in 0..MaxTrack, torn \in BOOLEAN : CleanupFlush(k, torn)
    \/ CleanupClose
    \/ Crash
    \/ Tick

SpecRewrite == Init /\ [][NextRewrite]_vars

\* Exports under the file names a client may give, the name of the
\* configuration file among them.
ExportRequests ==
    FrameExports \cup
    { UsageExport(format, UsageQuery(NoDate, NoDate, None, None, None, 0, DefaultLimit),
                  TRUE, TRUE, "usage_config") : format \in ExportFormat }

NextExport ==
    \/ \E req \in FrameRequests : Track(req, TRUE)
    \/ \E export_request \in ExportRequests, io_ok \in BOOLEAN :
          Export(export_request, io_ok)
    \/ \E config_data \in ConfigPatches : UpdateConfig(config_data, TRUE)
    \/ Tick

SpecExport == Init /\ [][NextExport]_vars

\* Cleanup of a log the environment may damage.
NextDamaged ==
    \/ \E req \in FrameRequests : Track(req, TRUE)
    \/ \E kind \in {"garbage", "blank"} : CorruptLine(kind)
    \/ \E days_to_keep \in CleanupDays : CleanupRead(days_to_keep)
    \/ CleanupRewrite(TRUE)
    \/ Tick

SpecDamaged == Init /\ [][NextDamaged]_vars

\* Configuration updates by concurrent clients, each behind the
\* authentication of the protected endpoints. The event loop runs every
\* request it has received.
InitConfig ==
    /\ usage_file = <<>>
    /\ config = default_config
    /\ config_file = default_config
    /\ now = 0
    /\ next_id = 1
    /\ cl_pc = "idle"
    /\ recent_entries = <<>>
    /\ cutoff_date = NoDate
    /\ calls = <<>>
    /\ environ \in Environs
    /\ ret = NoRet

NextConfig ==
    \/ \E credentials \in Credentials, config_data \in QuotaPatches :
          ReceiveConfig(credentials, config_data)
    \/ \E i \in 1..MaxCalls, io_ok \in BOOLEAN : ServeConfig(i, io_ok)

SpecConfig ==
    /\ InitConfig
    /\ [][NextConfig]_vars
    /\ WF_vars(\E i \in 1..MaxCalls, io_ok \in BOOLEAN : ServeConfig(i, io_ok))

\* ------------------------------------------------------------- properties
IsPrefix(s, t) == Len(s) <= Len(t) /\ SubSeq(t, 1, Len(s)) = s

\* s holds lines of t, unchanged and in t's order
IsSubsequence(s, t) ==
    \E f \in [1..Len(s) -> 1..Len(t)] :
        /\ \A i \in 1..Len(s) : t[f[i]] = s[i]
        /\ \A i, j \in 1..Len(s) : i < j => f[i] < f[j]

NewestFirst(entries) ==
    \A i \in 1..Len(entries) - 1 : entries[i].timestamp >= entries[i + 1].timestamp

\* the place of an entry in the log
Position(file, entry) ==
    CHOOSE i \in 1..Len(file) : file[i].kind = "json" /\ file[i].data = entry

NoFilters(query) ==
    /\ query.start_date = NoDate /\ query.end_date = NoDate
    /\ query.instance_id = None /\ query.session_id = None /\ query.model = None

Abs(x) == IF x < 0 THEN -x ELSE x

\* C1: the usage log is append-only.  Every step other than the rewrite of
\* cleanup (track, query, aggregate, current stats, export, pricing and config updates, the
\* read of cleanup, the clock) leaves the lines already in the log where and as they
\* are, so the old log is a prefix of the new one; the rewrite of cleanup only
\* removes lines: what it leaves are lines of the old log, unchanged and in
\* their old order.
C1_AppendOnly ==
    [][IF cl_pc = "rewrite" /\ cl_pc' = "idle"
       THEN IsSubsequence(usage_file', usage_file)
       ELSE IsPrefix(usage_file, usage_file')]_vars

C1_Witness ==
    /\ Len(usage_file) = 2
    /\ ret.op = "export"
    /\ ret.file # <<>>
    /\ ret.file[1].written
    /\ config.pricing = FlatPricing

\* the number of track calls that have returned an entry (each took one id)
TrackedCount == next_id - 1

C4_TotalIsSumOfParts ==
    \A i \in 1..Len(usage_file) :
        LET e == usage_file[i].data
        IN  Abs(e.total_cost - (e.input_cost + e.output_cost
                                + e.cache_creation_cost + e.cache_read_cost)) <= 1

\* the costs of the entry the last track call returned follow the pricing
\* policy: each category's cost is tokens / 1000 x its price rounded to a
\* micro-dollar (so within half a micro-dollar, 500 nano-dollars, of it), and
\* total_cost is the sum of the four unrounded costs, rounded
CostsFollowPolicy ==
    LET e == ret.entries[1]
        pricing == config.pricing[e.model]
        input == e.input_tokens * pricing.input_price_per_1k
        output == e.output_tokens * pricing.output_price_per_1k
        cache_creation == e.cache_creation_tokens * pricing.cache_creation_price_per_1k
        cache_read == e.cache_read_tokens * pricing.cache_read_price_per_1k
    IN  /\ Abs(1000 * e.input_cost - input) <= 500
        /\ Abs(1000 * e.output_cost - output) <= 500
        /\ Abs(1000 * e.cache_creation_cost - cache_creation) <= 500
        /\ Abs(1000 * e.cache_read_cost - cache_read) <= 500
        /\ Abs(1000 * e.total_cost - (input + output + cache_creation + cache_read))
             <= 500

PricedTrackReturned ==
    /\ ret.op = "track"
    /\ ~ret.raised
    /\ ret.req[1].model \in DOMAIN config.pricing

\* Scenario A: claude-3-haiku, 1000 input and 500 output tokens, default prices
ScenarioA ==
    /\ PricedTrackReturned
    /\ ret.req[1].model = HAIKU
    /\ ret.req[1].tokens = Tokens(1000, 500, 0, 0)
    /\ config.pricing = MODEL_PRICING

\* C5 (as amended): for a model with a pricing entry, each of the four costs is
\* (tokens / 1000) x the category's price per 1k rounded to 6 decimals, and
\* total_cost is the rounded sum of the four unrounded costs; claude-3-haiku
\* with 1000 input and 500 output tokens under the default prices gives
\* total_cost 0.000875 (875 micro-dollars: 0.00025 + 0.000625).
C5_CostPolicy ==
    /\ PricedTrackReturned => CostsFollowPolicy
    /\ ScenarioA => ret.entries[1].total_cost = 875

C5_Witness ==
    /\ ScenarioA
    /\ ret.entries[1].input_cost = 250
    /\ ret.entries[1].output_cost = 625
    /\ ret.entries[1].total_cost = 875

\* C5 (as claimed): the same policy, with Scenario A's total_cost given as
\* 0.001125 (1125 micro-dollars).
C5_AsClaimed ==
    /\ PricedTrackReturned => CostsFollowPolicy
    /\ ScenarioA => ret.entries[1].total_cost = 1125

C7_MalformedLineSkipped ==
    (ret.op = "query" /\ ret.req[1].offset = 0 /\ ret.req[1].limit >= Len(usage_file))
    => \A i \in 1..Len(usage_file) :
          (usage_file[i].kind = "json" /\ _matches_query(usage_file[i].data, ret.req[1]))
          => \E j \in 1..Len(ret.entries) : ret.entries[j] = usage_file[i].data

\* C8: a query's result is ordered by timestamp, newest first, and two of its
\* entries with the same timestamp stand in the order of their lines in the log.
C8_NewestFirstStable ==
    ret.op = "query"
    => /\ NewestFirst(ret.entries)
       /\ \A i, j \in 1..Len(ret.entries) :
             (i < j /\ ret.entries[i].timestamp = ret.entries[j].timestamp)
             => Position(usage_file, ret.entries[i]) < Position(usage_file, ret.entries[j])

C8_Witness ==
    /\ ret.op = "query"
    /\ Len(ret.entries) = 2
    /\ ret.entries[1].timestamp = ret.entries[2].timestamp
    /\ ret.entries[1].model # ret.entries[2].model

\* the newest-first list of all the entries of the log that match a query
AllMatching(file, query) == sort_newest_first(read_matching(file, query).entries)

\* C9: pagination.  With offset o >= 0 and limit l >= 0 over M matching
\* entries, the result is elements o .. o+l-1 (counted from 0) of the
\* newest-first list of all matching entries: min(l, M - o) entries, and none,
\* without an error, when o >= M.
C9_Pagination ==
    (ret.op = "query" /\ ret.req[1].offset >= 0 /\ ret.req[1].limit >= 0)
    => LET all == AllMatching(usage_file, ret.req[1])
           o == ret.req[1].offset
           l == ret.req[1].limit
           M == Len(all)
       IN  /\ ~ret.raised
           /\ Len(ret.entries) = IF o >= M THEN 0 ELSE IF l < M - o THEN l ELSE M - o
           /\ \A i \in 1..Len(ret.entries) : ret.entries[i] = all[o + i]

C9_Witness ==
    /\ ret.op = "query"
    /\ ret.req[1].offset = 1
    /\ ret.req[1].limit = 1
    /\ Len(AllMatching(usage_file, ret.req[1])) = 2
    /\ ret.entries = <<AllMatching(usage_file, ret.req[1])[2]>>

\* C10: the aggregation carries a per-model breakdown: every model with a
\* matching entry has a group whose requests, tokens and cost are the count,
\* the summed input + output tokens and the summed total cost of that model's
\* matching entries, so that the groups' requests add up to total_requests and
\* their tokens to total_tokens.
C10_PerModelBreakdown ==
    ret.op = "aggregate"
    => LET a == ret.agg[1]
           all == AllMatching(usage_file, ret.req[1])
           of(m) == SelectSeq(all, LAMBDA e : e.model = m)
           models == {all[i].model : i \in 1..Len(all)}
           groups == a.claude_model_usage
       IN  /\ \A m \in models :
                 /\ m \in DOMAIN groups
                 /\ groups[m].requests = Len(of(m))
                 /\ groups[m].tokens =
                        sum([i \in 1..Len(of(m)) |->
                                of(m)[i].input_tokens + of(m)[i].output_tokens])
                 /\ groups[m].cost = sum([i \in 1..Len(of(m)) |-> of(m)[i].total_cost])
           /\ a.total_requests = Len(all)

\* two queries with the same filters, whatever their offset and limit
SameFilters(q1, q2) ==
    /\ q1.start_date = q2.start_date /\ q1.end_date = q2.end_date
    /\ q1.instance_id = q2.instance_id /\ q1.session_id = q2.session_id
    /\ q1.model = q2.model

\* C11: aggregation is independent of pagination.  The totals of an
\* aggregation are those of all the entries of the log that match the query's
\* filters, whatever its offset and limit: total_requests is their number,
\* the token totals are their sums, and a query that differs only in offset
\* and limit is given the same aggregation.
C11_AggregationIgnoresPagination ==
    ret.op = "aggregate"
    => LET a == ret.agg[1]
           all == read_matching(usage_file, ret.req[1]).entries
       IN  /\ a.total_requests = Len(all)
           /\ a.total_input_tokens = sum([i \in 1..Len(all) |-> all[i].input_tokens])
           /\ a.total_output_tokens = sum([i \in 1..Len(all) |-> all[i].output_tokens])
           /\ a.total_tokens =
                  sum([i \in 1..Len(all) |-> all[i].input_tokens + all[i].output_tokens])
           /\ \A q \in AggregationQueries :
                  SameFilters(q, ret.req[1])
                  => get_usage_aggregation(usage_file, q, now) = a

C11_Witness ==
    /\ ret.op = "aggregate"
    /\ ret.req[1].offset = 1
    /\ ret.req[1].limit = 1
    /\ Len(usage_file) = 2
    /\ ret.agg[1].total_requests = 2

\* C12: aggregate is idempotent.  While the log stays as it is, the call that
\* has just answered would be given the same aggregation again, in every
\* field, at whatever the clock then reads.
C12_AggregateIdempotent ==
    [][(ret.op = "aggregate" /\ usage_file' = usage_file)
       => get_usage_aggregation(usage_file', ret.req[1], now') = ret.agg[1]]_vars

\* C13: aggregating a filter that matches no entry raises no error and gives
\* an aggregation whose token totals, cost totals, counts of requests,
\* sessions and instances, averages and cache hit rate are all 0, with
\* period_start and period_end those of the query where it gives them.
C13_EmptyAggregationIsZero ==
    (ret.op = "aggregate" /\ read_matching(usage_file, ret.req[1]).entries = <<>>)
    => LET a == ret.agg[1]
           query == ret.req[1]
       IN  /\ ~ret.raised
           /\ \A f \in {"total_input_tokens", "total_output_tokens",
                         "total_cache_creation_tokens", "total_cache_read_tokens",
                         "total_tokens", "total_input_cost", "total_output_cost",
                         "total_cache_creation_cost", "total_cache_read_cost",
                         "total_cost", "total_requests", "total_sessions",
                         "unique_instances"} : a[f] = 0
           /\ \A f \in {"avg_tokens_per_request", "avg_cost_per_request",
                         "cache_hit_rate"} : a[f] = Ratio(0, 1)
           /\ query.start_date # NoDate => a.period_start = query.start_date
           /\ query.end_date # NoDate => a.period_end = query.end_date

C13_Witness ==
    /\ ret.op = "aggregate"
    /\ usage_file # <<>>
    /\ ret.req[1].end_date = 0
    /\ ret.agg[1].total_requests = 0
    /\ ret.agg[1].period_end = 0
    /\ ret.agg[1].period_start = now - 30

\* the number of days of a month of the Gregorian calendar
DaysInMonth(year, month) ==
    IF month \in {4, 6, 9, 11} THEN 30
    ELSE IF month # 2 THEN 31
    ELSE IF year % 4 = 0 /\ (year % 100 # 0 \/ year % 400 = 0) THEN 29
    ELSE 28

\* C14: with monthly billing, whatever the day and the time of day, the
\* current period starts at 00:00:00 on day 1 of the month of now and ends
\* at 23:59:59 on the last day of that month, one second before 00:00:00 on
\* day 1 of the following month: 31 December of the same year in December,
\* and 29 February 2024 for 15 February 2024.
C14_MonthlyPeriod ==
    (ret.op = "current_stats" /\ config.billing_period = "monthly")
    => LET today == datetime_of(now, 0)
           stats == ret.stats[1]
       IN  /\ stats.current_period_start = datetime(today.year, today.month, 1, 0)
           /\ stats.current_period_end =
                  datetime(today.year, today.month,
                           DaysInMonth(today.year, today.month), 86399)
           /\ dt_plus(stats.current_period_end, timedelta(0, 1)) =
                  IF today.month = 12 THEN datetime(today.year + 1, 1, 1, 0)
                  ELSE datetime(today.year, today.month + 1, 1, 0)
           /\ today = datetime(2024, 2, 15, 0)
              => /\ stats.current_period_start = datetime(2024, 2, 1, 0)
                 /\ stats.current_period_end = datetime(2024, 2, 29, 86399)

C14_Witness ==
    /\ ret.op = "current_stats"
    /\ config.billing_period = "monthly"
    /\ datetime_of(now, 0) = datetime(2024, 2, 15, 0)
    /\ ret.stats[1].current_period_end = datetime(2024, 2, 29, 86399)

\* the summed costs of the entries of the log of the days first..last
CostOfDays(first, last) ==
    LET e(i) == usage_file[i].data
        in_days == SelectSeq([i \in 1..Len(usage_file) |-> i],
                             LAMBDA i : e(i).timestamp >= first /\ e(i).timestamp <= last)
    IN  sum([k \in 1..Len(in_days) |->
                e(in_days[k]).input_cost + e(in_days[k]).output_cost
                + e(in_days[k]).cache_creation_cost + e(in_days[k]).cache_read_cost])

\* the total costs of the current billing period and of the period of the
\* same length before it
PeriodCosts ==
    LET period == billing_period_of(datetime_of(now, 0), config.billing_period)
        first == day_of(period.period_start)
        last == day_of(period.period_end)
        days == last - first + 1
    IN  [current |-> CostOfDays(first, last),
         previous |-> CostOfDays(first - days, first - 1)]

\* the trend of the specification: a relative change of more than a tenth
\* either way, and stable otherwise and whenever the previous cost is 0
TrendAsSpecified(c, p) ==
    IF p = 0 THEN "stable"
    ELSE IF 10 * (c - p) > p THEN "increasing"
    ELSE IF 10 * (c - p) < -p THEN "decreasing"
    ELSE "stable"

\* C15: trend classification.  With c the total cost of the current period
\* and p that of the previous one, trend_direction is "stable" whenever
\* p = 0, and otherwise "increasing" iff (c - p) / p > 0.10, "decreasing" iff
\* (c - p) / p < -0.10 and "stable" in between, a change of exactly +10% or
\* -10% included.
C15_TrendClassification ==
    ret.op = "current_stats"
    => ret.stats[1].trend_direction =
           TrendAsSpecified(PeriodCosts.current, PeriodCosts.previous)

\* C16: quota percentages.  Each of the token, cost and request percentages
\* is usage / quota x 100 when its quota is set, and 0 when it is unset; a
\* quota of 0 makes the call fail no division: its percentage is 0.
C16_QuotaPercentages ==
    ret.op = "current_stats"
    => LET stats == ret.stats[1]
           percent(usage, quota) ==
               IF quota \in {NoQuota, 0} THEN Ratio(0, 1) ELSE Ratio(usage * 100, quota)
       IN  /\ ~ret.raised
           /\ stats.token_usage_percent =
                  percent(stats.current_tokens, config.token_quota)
           /\ stats.cost_usage_percent =
                  percent(stats.current_cost, micro_dollars(config.cost_quota))
           /\ stats.request_usage_percent =
                  percent(stats.current_requests, config.request_quota)

C16_Witness ==
    /\ ret.op = "current_stats"
    /\ config.token_quota = 1000
    /\ config.cost_quota = 0
    /\ config.request_quota = 4
    /\ ret.stats[1].current_requests = 2
    /\ ret.stats[1].request_usage_percent = Ratio(200, 4)
    /\ ret.stats[1].token_usage_percent = Ratio(8000, 1000)
    /\ ret.stats[1].cost_usage_percent = Ratio(0, 1)

\* the lines of a file
Lines(file) == {file[i] : i \in 1..Len(file)}

\* the step that ends a cleanup: its rewrite of the log
CleanupFinishes == cl_pc = "rewrite" /\ cl_pc' = "idle"

\* C17: cleanup keeps exactly the entries whose timestamp is >= now -
\* retention_days (its cutoff) and removes exactly the older ones: when it
\* finishes, the log holds the lines it held with a timestamp at or after the
\* cutoff, as they were and in their order.
C17_CleanupKeepsRecent ==
    [][CleanupFinishes
       => usage_file' = SelectSeq(usage_file,
                                  LAMBDA line : line.data.timestamp >= cutoff_date)]_vars

Served == {i \in 1..Len(calls) : calls[i].state = "served"}

\* the configurations that running the updates of the calls in S one after
\* the other, in any order, makes of the configuration c
RECURSIVE SerialOutcomes(_, _)
SerialOutcomes(S, c) ==
    IF S = {} THEN {c}
    ELSE UNION {SerialOutcomes(S \ {i}, dict_update(c, calls[i].config_data)) : i \in S}

TwoConcurrent ==
    /\ Len(calls) = 2
    /\ calls[2].concurrent
    /\ \A i \in 1..2 : calls[i].state = "pending"

LostUpdate ==
    /\ \A i \in 1..Len(calls) : calls[i].state # "pending"
    /\ config_file \notin SerialOutcomes(Served, default_config)

AuthDisabled ==
    /\ "DISABLE_AUTH" \in DOMAIN environ
    /\ environ.DISABLE_AUTH \in {"true", "True", "TRUE"}

\* C19: a request without credentials is served, whatever DISABLE_AUTH is; a
\* request is answered 401 only when authentication is on and it presents a
\* token that fails verification or names an unknown user; verify_token gives
\* None for an invalid token.
C19_NoCredentialsServed ==
    /\ \A i \in 1..Len(calls) :
          calls[i].state # "pending" =>
             /\ calls[i].credentials = NoCredentials =>
                   calls[i].state = "served" /\ calls[i].status_code = 200
             /\ calls[i].status_code = 401 =>
                   /\ ~AuthDisabled
                   /\ calls[i].credentials.kind # "none"
                   /\ \/ calls[i].credentials.kind = "invalid"
                      \/ calls[i].credentials.sub = None
                      \/ calls[i].credentials.sub \notin DOMAIN USERS
    /\ \A token \in BearerTokens : token.kind = "invalid" => verify_token(token) = <<>>

\* with authentication on, a request without credentials has been served and
\* a request with an invalid token has been answered 401
C19_Witness ==
    /\ environ = [DISABLE_AUTH |-> "false"]
    /\ \E i \in 1..Len(calls) :
          calls[i].credentials = NoCredentials /\ calls[i].state = "served"
    /\ \E i \in 1..Len(calls) :
          calls[i].credentials.kind = "invalid" /\ calls[i].status_code = 401

\* ------------------------------------------------ C21: reads and cleanup
\* the entries of a sequence of entries, and of the lines of a log
Elements(seq) == {seq[i] : i \in 1..Len(seq)}

ReadOps == {"query", "aggregate"}

\* C21: a query or an aggregation changes nothing, so that a read which
\* follows another read of the same query gives the same result; but a read
\* that runs while cleanup is writing the log back sees only what has reached
\* the log: it returns none of the entries cleanup has kept and not yet
\* written, which are in the log before and after the cleanup.
C21_ReadsSafeButNotWithCleanup ==
    /\ [][ret'.op \in ReadOps =>
             /\ UNCHANGED <<usage_file, config, config_file, cl_pc, recent_entries,
                            cutoff_date>>
             /\ (ret.op = ret'.op /\ ret.req = ret'.req) => ret' = ret]_vars
    /\ [](cl_pc = "writing" /\ ret.op = "query" =>
             \A line \in Elements(recent_entries) :
                 line.data \notin Elements(ret.entries))
    /\ [](cl_pc = "writing" /\ ret.op = "aggregate" =>
             ret.agg[1].total_requests <= Len(whole_lines(usage_file)))

\* a query with no filter has run while cleanup was writing and returned
\* nothing, though cleanup keeps two entries
C21_Witness ==
    /\ cl_pc = "writing"
    /\ ret.op = "query"
    /\ NoFilters(ret.req[1])
    /\ ret.entries = <<>>
    /\ Len(recent_entries) = 2

\* ------------------------------------------------ C22: crash in the rewrite
\* the process dies while cleanup has lines left to write
CrashInRewrite ==
    /\ cl_pc = "writing"
    /\ recent_entries # <<>>
    /\ cl_pc' = "idle"
    /\ usage_file' = usage_file

\* C22: when the process dies after cleanup has opened the log for writing
\* and before every kept line is written, the log lacks a line whose
\* timestamp is at or after the cutoff and that was in the log when cleanup
\* read it.
C22_CrashTruncatesLog ==
    [][CrashInRewrite =>
          \E line \in Elements(recent_entries) :
              /\ line \notin Elements(usage_file')
              /\ line.data.timestamp >= cutoff_date]_vars

\* after a crash the log ends in a line cut short and holds at most one of
\* the two entries tracked, none of which was older than a cutoff
C22_Witness ==
    /\ cl_pc = "idle"
    /\ now = 0
    /\ next_id = 3
    /\ usage_file # <<>>
    /\ usage_file[Len(usage_file)].kind = "torn"
    /\ Len(usage_file) <= 2

\* ------------------------------------------------ C30: cleanup fails to read
Malformed(file) == \E i \in 1..Len(file) : file[i].kind \notin {"json", "blank"}

\* C30: while the log holds a line that does not decode, a cleanup that
\* starts comes to its end without raising and without starting its rewrite,
\* and the log is as it was: no step removes or rewrites a line.
C30_FailedCleanupLeavesLog ==
    [][(cl_pc = "idle" /\ Malformed(usage_file)) =>
          /\ cl_pc' = "idle"
          /\ recent_entries' = <<>>
          /\ IsPrefix(usage_file, usage_file')
          /\ ret'.op = "cleanup" => (~ret'.raised /\ usage_file' = usage_file)]_vars

\* cleanup has come to its end on a log with a malformed line, and the entry
\* of the day before, which is older than the cutoff, is still there
C30_Witness ==
    /\ ret.op = "cleanup"
    /\ ~ret.raised
    /\ cl_pc = "idle"
    /\ Malformed(usage_file)
    /\ now = 1
    /\ \E i \in 1..Len(usage_file) :
          usage_file[i].kind = "json" /\ usage_file[i].data.timestamp = 0

\* ------------------------------------------------ C23: who writes the files
\* C23: the configuration file changes only in a configuration save and the
\* log only in a track or in the rewrite of cleanup; an export, whatever its
\* file name and format, changes neither.
C23_OnlyStoreWritesFiles ==
    [][/\ config_file' # config_file => ret'.op \in {"update_config", "update_pricing"}
       /\ usage_file' # usage_file => (ret'.op = "track" \/ cl_pc \in {"rewrite", "writing"})
       /\ ret'.op = "export" => UNCHANGED <<config_file, usage_file>>]_vars

\* ------------------------------------------------ C24: configuration saved
\* C24: after every update_config or update_pricing call that reports
\* success, the configuration file holds the live configuration.
C24_ConfigSavedOnMutation ==
    (ret.op \in {"update_config", "update_pricing"} /\ ~ret.raised) =>
        config_file = config

\* ------------------------------------------------ C25: costs fixed at write
\* the entries the log holds, as stored
StoredEntries == {line.data : line \in {l \in Elements(usage_file) : l.kind = "json"}}

Stored(field) ==
    [i \in 1..Len(usage_file) |->
        IF usage_file[i].kind = "json" THEN usage_file[i].data[field] ELSE 0]

\* C25: a pricing update leaves the log as it is; the costs of an entry a
\* track returns follow the live price table of the call; a query returns
\* entries as the log stores them and an unfiltered aggregation reports the
\* sums of the stored costs, category by category, and their sum as the total
\* cost, whatever the prices are by then.
C25_CostsFixedAtWriteTime ==
    /\ [][ret'.op = "update_pricing" => usage_file' = usage_file]_vars
    /\ [](PricedTrackReturned => CostsFollowPolicy)
    /\ []((ret.op = "track" /\ ~ret.raised /\ ~PricedTrackReturned) =>
             ret.entries[1].total_cost = 0)
    /\ [](ret.op = "query" => Elements(ret.entries) \subseteq StoredEntries)
    /\ [](ret.op = "aggregate" =>
             /\ ret.agg[1].total_input_cost = sum(Stored("input_cost"))
             /\ ret.agg[1].total_output_cost = sum(Stored("output_cost"))
             /\ ret.agg[1].total_cache_creation_cost = sum(Stored("cache_creation_cost"))
             /\ ret.agg[1].total_cache_read_cost = sum(Stored("cache_read_cost"))
             /\ ret.agg[1].total_cost =
                    sum(Stored("input_cost")) + sum(Stored("output_cost"))
                  + sum(Stored("cache_creation_cost")) + sum(Stored("cache_read_cost")))

\* a query made under the flat price table returns two claude-3-haiku entries
\* of the same token counts: the one tracked under the default prices costs
\* 875 micro-dollars, the one tracked after the update costs nothing
C25_Witness ==
    /\ ret.op = "query"
    /\ config.pricing = FlatPricing
    /\ \E i, j \in 1..Len(ret.entries) :
          /\ ret.entries[i].model = HAIKU
          /\ ret.entries[j].model = HAIKU
          /\ ret.entries[i].input_tokens = ret.entries[j].input_tokens
          /\ ret.entries[i].output_tokens = ret.entries[j].output_tokens
          /\ ret.entries[i].total_cost = 875
          /\ ret.entries[j].total_cost = 0
          /\ ret.entries[i].id < ret.entries[j].id

\* ------------------------------------------------ C26: the previous period
\* the period of the statistics last returned
ReturnedPeriod ==
    [period_start |-> ret.stats[1].current_period_start,
     period_end |-> ret.stats[1].current_period_end]

\* a is an earlier instant than b
Before(a, b) ==
    \/ dt_diff(b, a).days > 0
    \/ dt_diff(b, a).days = 0 /\ dt_diff(b, a).seconds > 0

\* C26: for every granularity and every now, the previous period ends one
\* second before the current period starts, lasts as long as the current
\* period (prev_end - prev_start = period_end - period_start), and so lies
\* wholly before it.
C26_PreviousPeriodAdjacent ==
    ret.op = "current_stats"
    => LET prev == previous_period(ReturnedPeriod)
       IN  /\ dt_plus(prev.period_end, timedelta(0, 1)) = ReturnedPeriod.period_start
           /\ dt_diff(prev.period_end, prev.period_start) =
                  dt_diff(ReturnedPeriod.period_end, ReturnedPeriod.period_start)
           /\ Before(prev.period_start, prev.period_end)
           /\ Before(prev.period_end, ReturnedPeriod.period_start)

\* in March 2024, with monthly billing, the previous period is the 31 days
\* from 30 January to the last second of 29 February
C26_Witness ==
    /\ ret.op = "current_stats"
    /\ config.billing_period = "monthly"
    /\ ReturnedPeriod.period_start = datetime(2024, 3, 1, 0)
    /\ previous_period(ReturnedPeriod) =
           [period_start |-> datetime(2024, 1, 30, 0),
            period_end |-> datetime(2024, 2, 29, 86399)]

\* ------------------------------------------------ C27: projections
\* the days of the period of the statistics last returned that have begun
DaysElapsed == now - day_of(ReturnedPeriod.period_start) + 1

\* C27: in the current statistics the daily average is the total of the
\* current period / max(days elapsed, 1) and the monthly projection is the
\* daily average x 30, for cost and for tokens (whose figures are whole
\* numbers: the whole part of the quotient and of the product), whatever the
\* billing period and its length; the divisor is never 0.
C27_Projection ==
    ret.op = "current_stats"
    => LET stats == ret.stats[1]
           divisor == IF DaysElapsed > 1 THEN DaysElapsed ELSE 1
       IN  /\ DaysElapsed >= 1
           /\ stats.daily_average_cost = Ratio(stats.current_cost, divisor)
           /\ stats.projected_monthly_cost = Ratio(stats.current_cost * 30, divisor)
           /\ stats.daily_average_tokens = stats.current_tokens \div divisor
           /\ stats.projected_monthly_tokens = (stats.current_tokens * 30) \div divisor

\* ------------------------------------------------ C28: periods tile time
\* C28: for every granularity, the filter of a billing period matches a
\* timestamp exactly when the period is the one the timestamp lies in (from
\* its start up to the start of the next period), fractions of the last
\* second included: an entry is counted in one period and in one only.
C28_PeriodsTile ==
    ret.op = "matches_query"
    => (ret.entries # <<>>
        <=> ret.req[1].period =
                billing_period_of(ret.req[1].timestamp.datetime, config.billing_period))

\* ------------------------------------------------ C29: export consistency
\* C29: in a JSON export with both the raw entries and the aggregation,
\* export_info.total_entries is the number of exported usage_entries and is
\* aggregation.total_requests, whatever the query's offset and limit and the
\* number of matching entries.
C29_ExportDescribesSameEntries ==
    (/\ ret.op = "export"
     /\ ~ret.raised
     /\ ret.req[1].format = "json"
     /\ ret.req[1].include_raw_data
     /\ ret.req[1].include_aggregations)
    => LET json == ret.file[1].json[1]
       IN  /\ json.export_info.total_entries = Len(json.usage_entries[1])
           /\ json.export_info.total_entries = json.aggregation[1].total_requests

====
